---- MODULE Spec2Model ----
(***************************************************************************)
(* Ripple backend: the donation ledger (routers/donations.py) and the      *)
(* campaign status handlers (routers/campaigns.py) over the committed      *)
(* database.                                                               *)
(*                                                                         *)
(* Every request runs in its own SQLAlchemy session (database.get_db,      *)
(* autocommit=False, autoflush=False).  A session reads committed rows     *)
(* one query at a time, keeps what it read in its identity map, changes    *)
(* the loaded objects in memory and writes the changed columns in one      *)
(* database transaction at db.commit().  The store is read-committed: a    *)
(* query sees whatever is committed when it runs, an UPDATE overwrites     *)
(* the column with the value the session computed.                         *)
(*                                                                         *)
(* Amounts are Numeric(10, 2) values counted in whole units.               *)
(*                                                                         *)
(* The second part is the account side: registration, login, the bearer    *)
(* token and the profile update (routers/auth.py, auth.py,                 *)
(* routers/users.py) over table users, with the clock the token's expiry   *)
(* is compared with.                                                       *)
(***************************************************************************)
EXTENDS Integers, Sequences, FiniteSets, TLC

\* ------------------------------------------------------------------ bounds
MaxDonations == 2
\* status updates committed or in flight, under concurrent and under serial handling
MaxOps == 2
MaxSeqOps == 3

\* rows of table users, committed or being inserted
MaxUsers == 3
\* tokens issued by login
MaxTokens == 2
\* lifetime of a login token in seconds (ACCESS_TOKEN_EXPIRE_MINUTES, scaled down)
TokenLifetime == 1
\* length in seconds of the login limit's window ("minute", scaled down)
LoginWindow == 1
\* login requests a client sends in one window beyond the limit
MaxRejected == 1
\* rows of table campaigns where campaigns are created
MaxCampaigns == 2
\* rows of campaigns and donations plus status updates started, together,
\* where every request carries a bearer token
MaxGuardedWork == 3

Sessions == {"s1", "s2"}
SeqSessions == {"s1"}
Users == {"u1", "u2"}
\* DonationCreate.amount is validated gt=0; what each caller gives
Gives == [u1 |-> 1, u2 |-> 2]

\* ------------------------------------------------------------------- enums
PENDING == "pending"
COMPLETED == "completed"
FAILED == "failed"
REFUNDED == "refunded"
PaymentStatus == {PENDING, COMPLETED, FAILED, REFUNDED}

DRAFT == "draft"
ACTIVE == "active"
CANCELLED == "cancelled"
CampaignStatus == {DRAFT, ACTIVE, COMPLETED, CANCELLED}

HTTP_200_OK == 200
HTTP_201_CREATED == 201
HTTP_204_NO_CONTENT == 204
HTTP_400_BAD_REQUEST == 400
HTTP_403_FORBIDDEN == 403
HTTP_404_NOT_FOUND == 404
\* the request died before db.commit(): unhandled error, timeout, crash
ABORTED == 500
NoResponse == 0

VARIABLES
    campaigns,   \* table campaigns: id -> [status, current_amount, creator_id]
    givers,      \* table giver_profiles, keyed by its user: [total_donated, donation_count]
    donations,   \* table donations: id -> [campaign_id, giver_id, amount, payment_status]
    pc,          \* per session: the handler's position
    req,         \* per session: the request's arguments and the objects it loaded
    resp,        \* status code sent by the last step, NoResponse if it sent none
    ops,         \* number of status updates committed so far
    users,       \* table users: id -> [email, username, hashed_password, is_active]
    tokens,      \* the bearer tokens login has issued (held by clients, not stored)
    now,         \* datetime.utcnow(), in ticks
    body,        \* what the last step's response carries, NoBody if nothing
    storage      \* the login limiter's counters: client key -> [count, expires]

vars == <<campaigns, givers, donations, pc, req, resp, ops, users, tokens, now, body,
          storage>>
db == <<campaigns, givers, donations>>
\* what the donation and campaign routes never write
accounts == <<users, tokens, now, body, storage>>
\* what the account routes never write
ledger == <<campaigns, donations, ops>>

CampaignIds == 1..Len(campaigns)
DonationIds == 1..Len(donations)

\* Requests in flight, by handler.
Creating == {s \in DOMAIN pc : pc[s] = "create_commit"}
Updating == {s \in DOMAIN pc : pc[s] \in {"upd_auth", "upd_aggregates", "upd_commit"}}

NoReq == [user |-> "none", donation_id |-> 0, payment_status |-> "none",
          campaign_id |-> 0, amount |-> 0, giver_id |-> "none",
          old_status |-> "none", campaign_status |-> "none",
          total_donated |-> 0, donation_count |-> 0, current_amount |-> 0,
          aggregates |-> FALSE, campaign_found |-> FALSE, giver_found |-> FALSE]

\* The tables' columns (models.py) and what a session holds.
TypeOK ==
    /\ \A c \in CampaignIds :
          /\ campaigns[c].status \in CampaignStatus
          /\ campaigns[c].current_amount \in Nat
          /\ campaigns[c].creator_id \in Users
    /\ \A u \in DOMAIN givers :
          givers[u].total_donated \in Nat /\ givers[u].donation_count \in Nat
    /\ \A d \in DonationIds :
          /\ donations[d].campaign_id \in CampaignIds
          /\ donations[d].giver_id \in DOMAIN givers
          /\ donations[d].amount \in Nat \ {0}
          /\ donations[d].payment_status \in PaymentStatus
    /\ pc \in [Sessions -> {"idle", "create_commit", "upd_auth", "upd_aggregates",
                             "upd_commit", "reg_email", "reg_flush", "reg_commit",
                             "profile_commit", "token", "password", "validated"}]
    /\ \A s \in Sessions : pc[s] = "idle" => req[s] = NoReq
    /\ ops \in Nat
    /\ \A u \in DOMAIN users : users[u].is_active \in BOOLEAN
    /\ \A t \in tokens : t.exp \in Nat
    /\ now \in Nat
    /\ resp \in Nat

\* Two registered users, each with the giver profile register_user creates with
\* it (total_donated and donation_count default to 0); one campaign, as
\* create_campaign leaves it; no donation.
NewGiverProfile == [total_donated |-> 0, donation_count |-> 0]

NewCampaign(u) == [status |-> DRAFT, current_amount |-> 0, creator_id |-> u]

\* What a response can carry: an error detail, the token login returns, the
\* id of the user a route returns.
NoToken == [sub |-> "none", exp |-> 0, sig |-> <<"none", 0, "none">>]
NoBody == [detail |-> "", token |-> NoToken, user |-> "none"]

\* hash_password / verify_password: bcrypt's digest is determined by the
\* password (and a salt stored with it), checkpw recomputes and compares it.
hash_password(password) == <<"bcrypt", password>>
verify_password(plain_password, hashed_password) ==
    hash_password(plain_password) = hashed_password

\* The row register_user inserts.
NewUser(email, username, password) ==
    [email |-> email, username |-> username,
     hashed_password |-> hash_password(password), is_active |-> TRUE]

\* the accounts of the two users of the donation routes
Registered ==
    [u1 |-> NewUser("a@x.org", "alice", "Str0ngPass"),
     u2 |-> NewUser("b@x.org", "bob", "Str0ngPass")]

Init ==
    /\ campaigns = <<NewCampaign("u1")>>
    /\ givers = [u \in Users |-> NewGiverProfile]
    /\ donations = << >>
    /\ pc = [s \in Sessions |-> "idle"]
    /\ req = [s \in Sessions |-> NoReq]
    /\ resp = NoResponse
    /\ ops = 0
    /\ users = [u \in Users |-> Registered[u]]
    /\ tokens = {}
    /\ now = 0
    /\ body = NoBody
    /\ storage = << >>

\* A request that ends: the session is closed, its loaded objects are gone.
Finish(s, code) ==
    /\ pc' = [pc EXCEPT ![s] = "idle"]
    /\ req' = [req EXCEPT ![s] = NoReq]
    /\ resp' = code

\* --------------------------------------------------------------- campaigns
\* PUT /campaigns/{id} with a status in the body; only the status column is written.
update_campaign(u, c, st) ==
    /\ c \in CampaignIds
    /\ campaigns[c].creator_id = u
    /\ campaigns[c].status # st
    /\ campaigns' = [campaigns EXCEPT ![c].status = st]
    /\ resp' = HTTP_200_OK
    /\ UNCHANGED <<givers, donations, pc, req, ops>>

\* DELETE /campaigns/{id}: soft delete.
delete_campaign(u, c) ==
    /\ c \in CampaignIds
    /\ campaigns[c].creator_id = u
    /\ campaigns[c].status # CANCELLED
    /\ campaigns' = [campaigns EXCEPT ![c].status = CANCELLED]
    /\ resp' = HTTP_204_NO_CONTENT
    /\ UNCHANGED <<givers, donations, pc, req, ops>>

\* POST /campaigns/: a new campaign starts as a draft of its creator.
create_campaign(u) ==
    /\ Len(campaigns) < MaxCampaigns
    /\ campaigns' = Append(campaigns, NewCampaign(u))
    /\ resp' = HTTP_201_CREATED
    /\ UNCHANGED <<givers, donations, pc, req, ops>>

\* --------------------------------------------------------- create_donation
\* mutant: only a deleted campaign is refused
CampaignAccepts_NotCancelled(status) == status # CANCELLED

\* if campaign.status != CampaignStatus.ACTIVE: raise 400
CampaignAccepts(status) == status = ACTIVE

\* mutant: the donation is created as already paid
NewDonation_Completed(c, g, amt) ==
    [campaign_id |-> c, giver_id |-> g, amount |-> amt, payment_status |-> COMPLETED]

NewDonation(c, g, amt) ==
    [campaign_id |-> c, giver_id |-> g, amount |-> amt, payment_status |-> PENDING]

\* The request arrives and the campaign is queried and checked.
CreateRead(s, u, c, amt) ==
    /\ pc[s] = "idle"
    /\ Len(donations) + Cardinality(Creating) < MaxDonations
    /\ UNCHANGED <<db, ops>>
    /\ IF c \notin CampaignIds
       THEN Finish(s, HTTP_404_NOT_FOUND)
       ELSE IF ~CampaignAccepts(campaigns[c].status)
       THEN Finish(s, HTTP_400_BAD_REQUEST)
       ELSE /\ pc' = [pc EXCEPT ![s] = "create_commit"]
            /\ req' = [req EXCEPT ![s] = [NoReq EXCEPT !.user = u, !.campaign_id = c,
                                              !.amount = amt,
                                              !.campaign_status = campaigns[c].status]]
            /\ resp' = NoResponse

\* The giver profile is looked up, the donation is added and committed.
CreateCommit(s) ==
    /\ pc[s] = "create_commit"
    /\ donations' = Append(donations,
                           NewDonation(req[s].campaign_id, req[s].user, req[s].amount))
    /\ Finish(s, HTTP_201_CREATED)
    /\ UNCHANGED <<campaigns, givers, ops>>

\* -------------------------------------------------- update_donation_status
\* mutant: the new status is not looked at
NeedsAggregates_AnyNewStatus(old, new) == old # COMPLETED

\* if old_status != COMPLETED and payment_status == COMPLETED
NeedsAggregates(old, new) == old # COMPLETED /\ new = COMPLETED

\* campaign.current_amount += donation.amount
AddToCampaign(current_amount, amt) == current_amount + amt

\* giver_profile.total_donated += donation.amount; giver_profile.donation_count += 1
AddToGiver(g, amt) ==
    [total_donated |-> g.total_donated + amt, donation_count |-> g.donation_count + 1]

\* The request arrives and the donation is queried.
UpdReadDonation(s, u, d, ps) ==
    /\ pc[s] = "idle"
    /\ UNCHANGED <<db, ops>>
    /\ IF d \notin DonationIds
       THEN Finish(s, HTTP_404_NOT_FOUND)
       ELSE /\ pc' = [pc EXCEPT ![s] = "upd_auth"]
            /\ req' = [req EXCEPT ![s] = [NoReq EXCEPT !.user = u, !.donation_id = d,
                                              !.payment_status = ps,
                                              !.campaign_id = donations[d].campaign_id,
                                              !.giver_id = donations[d].giver_id,
                                              !.amount = donations[d].amount,
                                              !.old_status = donations[d].payment_status]]
            /\ resp' = NoResponse

\* mutant: the caller's giver profile is loaded but not compared with the donation's
UpdAuthorize_NoCheck(s) ==
    /\ pc[s] = "upd_auth"
    /\ UNCHANGED <<db, ops>>
    /\ req' = [req EXCEPT ![s].total_donated = givers[req[s].user].total_donated,
                          ![s].donation_count = givers[req[s].user].donation_count]
    /\ pc' = [pc EXCEPT ![s] =
                IF NeedsAggregates(req[s].old_status, req[s].payment_status)
                THEN "upd_aggregates" ELSE "upd_commit"]
    /\ resp' = NoResponse

\* The caller's giver profile is queried (and stays loaded in the session);
\* only the donor passes.  The new status is set on the loaded donation.
UpdAuthorize(s) ==
    /\ pc[s] = "upd_auth"
    /\ UNCHANGED <<db, ops>>
    /\ IF req[s].user # req[s].giver_id
       THEN Finish(s, HTTP_403_FORBIDDEN)
       ELSE /\ req' = [req EXCEPT ![s].total_donated = givers[req[s].user].total_donated,
                                  ![s].donation_count = givers[req[s].user].donation_count]
            /\ pc' = [pc EXCEPT ![s] =
                        IF NeedsAggregates(req[s].old_status, req[s].payment_status)
                        THEN "upd_aggregates" ELSE "upd_commit"]
            /\ resp' = NoResponse

\* mutant: the campaign is taken for missing and its update is skipped
UpdAggregates_SkipsCampaign(s) ==
    /\ pc[s] = "upd_aggregates"
    /\ UNCHANGED <<db, ops>>
    /\ resp' = NoResponse
    /\ req' = [req EXCEPT ![s].aggregates = TRUE,
                          ![s].giver_found = req[s].giver_id \in DOMAIN givers]
    /\ pc' = [pc EXCEPT ![s] = "upd_commit"]

\* _update_donation_aggregates: the campaign is queried and, "if campaign:",
\* its total is changed in memory; the giver profile is the object
\* UpdAuthorize loaded (the second query returns it from the session's
\* identity map, as it was read) and, "if giver_profile:", its totals are
\* changed in memory.
UpdAggregates(s) ==
    /\ pc[s] = "upd_aggregates"
    /\ UNCHANGED <<db, ops>>
    /\ resp' = NoResponse
    /\ req' = [req EXCEPT ![s].current_amount =
                              IF req[s].campaign_id \in CampaignIds
                              THEN campaigns[req[s].campaign_id].current_amount ELSE 0,
                          ![s].aggregates = TRUE,
                          ![s].campaign_found = req[s].campaign_id \in CampaignIds,
                          ![s].giver_found = req[s].giver_id \in DOMAIN givers]
    /\ pc' = [pc EXCEPT ![s] = "upd_commit"]

\* The rows db.commit() writes: the columns whose value the session changed.
CommittedDonations(r) ==
    IF r.payment_status # r.old_status
    THEN [donations EXCEPT ![r.donation_id].payment_status = r.payment_status]
    ELSE donations

CommittedCampaigns(r) ==
    IF r.aggregates /\ r.campaign_found
    THEN [campaigns EXCEPT ![r.campaign_id].current_amount =
                               AddToCampaign(r.current_amount, r.amount)]
    ELSE campaigns

\* mutant: the giver profile's change is not part of the commit
CommittedGivers_Skipped(r) == givers

CommittedGivers(r) ==
    IF r.aggregates /\ r.giver_found
    THEN [givers EXCEPT ![r.giver_id] = AddToGiver(r, r.amount)]
    ELSE givers

UpdCommit(s) ==
    /\ pc[s] = "upd_commit"
    /\ donations' = CommittedDonations(req[s])
    /\ campaigns' = CommittedCampaigns(req[s])
    /\ givers' = CommittedGivers(req[s])
    /\ Finish(s, HTTP_200_OK)
    /\ ops' = ops + 1

\* get_db closes the session of a request that died before db.commit():
\* nothing the session changed in memory reaches the database.
Abort(s) ==
    /\ pc[s] # "idle"
    /\ Finish(s, ABORTED)
    /\ UNCHANGED <<db, ops>>

\* ------------------------------------------------------------ specification
NextOf(S, maxOps, statuses) ==
    \/ \E u \in Users, c \in CampaignIds, st \in CampaignStatus : update_campaign(u, c, st)
    \/ \E u \in Users, c \in CampaignIds : delete_campaign(u, c)
    \/ \E s \in S, u \in Users, c \in 1..(Len(campaigns) + 1) :
          CreateRead(s, u, c, Gives[u])
    \/ \E s \in S : CreateCommit(s)
    \/ /\ ops + Cardinality(Updating) < maxOps
       /\ \E s \in S, u \in Users, d \in 1..(Len(donations) + 1), ps \in statuses :
             UpdReadDonation(s, u, d, ps)
    \/ \E s \in S : UpdAuthorize(s)
    \/ \E s \in S : UpdAggregates(s)
    \/ \E s \in S : UpdCommit(s)
    \/ \E s \in S : Abort(s)

\* update_donation_status tests the requested and the old status against
\* COMPLETED only, so FAILED is handled as REFUNDED is; the concurrent
\* requests ask for the other three.
ConcurrentStatuses == PaymentStatus \ {FAILED}

\* Requests handled concurrently, each in its own session.
Next == NextOf(Sessions, MaxOps, ConcurrentStatuses) /\ UNCHANGED accounts
Spec == Init /\ [][Next]_vars

\* Requests handled one at a time.
SeqNext == NextOf(SeqSessions, MaxSeqOps, PaymentStatus) /\ UNCHANGED accounts
SeqSpec == Init /\ [][SeqNext]_vars

\* Requests handled one at a time after the campaign's creator has deleted
\* it: DELETE /campaigns/1 was answered 204, no request is under way and no
\* donation exists.
DeletedInit ==
    /\ campaigns = <<[NewCampaign("u1") EXCEPT !.status = CANCELLED]>>
    /\ givers = [u \in Users |-> NewGiverProfile]
    /\ donations = << >>
    /\ pc = [s \in Sessions |-> "idle"]
    /\ req = [s \in Sessions |-> NoReq]
    /\ resp = HTTP_204_NO_CONTENT
    /\ ops = 0
    /\ users = [u \in Users |-> Registered[u]]
    /\ tokens = {}
    /\ now = 0
    /\ body = NoBody
    /\ storage = << >>
DeletedSpec == DeletedInit /\ [][SeqNext]_vars

\* Status updates alone, handled concurrently, on a ledger in which one giver
\* has two PENDING donations of different amounts to an ACTIVE campaign
\* (DonationCreate.amount is any amount above 0).
PendingInit ==
    /\ campaigns = <<[NewCampaign("u1") EXCEPT !.status = ACTIVE]>>
    /\ givers = [u \in Users |-> NewGiverProfile]
    /\ donations = <<NewDonation(1, "u1", 1), NewDonation(1, "u1", 2)>>
    /\ pc = [s \in Sessions |-> "idle"]
    /\ req = [s \in Sessions |-> NoReq]
    /\ resp = NoResponse
    /\ ops = 0
    /\ users = [u \in Users |-> Registered[u]]
    /\ tokens = {}
    /\ now = 0
    /\ body = NoBody
    /\ storage = << >>

UpdSteps ==
    \/ /\ ops + Cardinality(Updating) < MaxOps
       /\ \E s \in Sessions, u \in Users, d \in DonationIds, ps \in ConcurrentStatuses :
             UpdReadDonation(s, u, d, ps)
    \/ \E s \in Sessions : UpdAuthorize(s)
    \/ \E s \in Sessions : UpdAggregates(s)
    \/ \E s \in Sessions : UpdCommit(s)
    \/ \E s \in Sessions : Abort(s)
UpdNext == UpdSteps /\ UNCHANGED accounts
UpdSpec == PendingInit /\ [][UpdNext]_vars

\* ================================================================ accounts
HTTP_401_UNAUTHORIZED == 401
HTTP_422_UNPROCESSABLE_ENTITY == 422

\* ids the users table hands out, in order
UserIds == <<"u1", "u2", "u3", "u4", "u5">>
\* what registrations and logins are tried with; a username is any string of
\* 3 to 50 characters, an e-mail address included
Emails == {"a@x.org", "b@x.org"}
Usernames == {"alice", "a@x.org"}
Passwords == {"Str0ngPass", "password", "short"}

\* The characters of [A-Z], [a-z] and \d, in order.
AsciiUpper ==
    <<"A", "B", "C", "D", "E", "F", "G", "H", "I", "J", "K", "L", "M", "N", "O", "P", "Q",
     "R", "S", "T", "U", "V", "W", "X", "Y", "Z">>
AsciiLower ==
    <<"a", "b", "c", "d", "e", "f", "g", "h", "i", "j", "k", "l", "m", "n", "o", "p", "q",
     "r", "s", "t", "u", "v", "w", "x", "y", "z">>
Digits == {"0", "1", "2", "3", "4", "5", "6", "7", "8", "9"}
Range(f) == {f[i] : i \in DOMAIN f}

\* The passwords tried, character by character: the ones of this model's
\* requests, the ones of the repository's tests, the deny-list and variants
\* of its entries.
Spelling ==
    "Str0ngPass" :> <<"S", "t", "r", "0", "n", "g", "P", "a", "s", "s">>
    @@ "short" :> <<"s", "h", "o", "r", "t">>
    @@ "SecurePass123" :> <<"S", "e", "c", "u", "r", "e", "P", "a", "s", "s", "1", "2", "3">>
    @@ "Short1A" :> <<"S", "h", "o", "r", "t", "1", "A">>
    @@ "lowercase123" :> <<"l", "o", "w", "e", "r", "c", "a", "s", "e", "1", "2", "3">>
    @@ "UPPERCASE123" :> <<"U", "P", "P", "E", "R", "C", "A", "S", "E", "1", "2", "3">>
    @@ "NoNumbersHere" :> <<"N", "o", "N", "u", "m", "b", "e", "r", "s", "H", "e", "r", "e">>
    @@ "Password123" :> <<"P", "a", "s", "s", "w", "o", "r", "d", "1", "2", "3">>
    @@ "PASSWORD" :> <<"P", "A", "S", "S", "W", "O", "R", "D">>
    @@ "TRUSTNO1" :> <<"T", "R", "U", "S", "T", "N", "O", "1">>
    @@ "Trustno1" :> <<"T", "r", "u", "s", "t", "n", "o", "1">>
    @@ "Abc123" :> <<"A", "b", "c", "1", "2", "3">>
    @@ "Abcdefg1" :> <<"A", "b", "c", "d", "e", "f", "g", "1">>
    @@ "" :> <<>>
    @@ "password" :> <<"p", "a", "s", "s", "w", "o", "r", "d">>
    @@ "password123" :> <<"p", "a", "s", "s", "w", "o", "r", "d", "1", "2", "3">>
    @@ "12345678" :> <<"1", "2", "3", "4", "5", "6", "7", "8">>
    @@ "qwerty" :> <<"q", "w", "e", "r", "t", "y">>
    @@ "abc123" :> <<"a", "b", "c", "1", "2", "3">>
    @@ "monkey" :> <<"m", "o", "n", "k", "e", "y">>
    @@ "1234567890" :> <<"1", "2", "3", "4", "5", "6", "7", "8", "9", "0">>
    @@ "letmein" :> <<"l", "e", "t", "m", "e", "i", "n">>
    @@ "trustno1" :> <<"t", "r", "u", "s", "t", "n", "o", "1">>
    @@ "dragon" :> <<"d", "r", "a", "g", "o", "n">>
    @@ "baseball" :> <<"b", "a", "s", "e", "b", "a", "l", "l">>
    @@ "iloveyou" :> <<"i", "l", "o", "v", "e", "y", "o", "u">>
    @@ "master" :> <<"m", "a", "s", "t", "e", "r">>
    @@ "sunshine" :> <<"s", "u", "n", "s", "h", "i", "n", "e">>
    @@ "ashley" :> <<"a", "s", "h", "l", "e", "y">>

\* len(password) and the character classes validate_password_strength looks for
PasswordLength(p) == Len(Spelling[p])
HasUpper(p) == \E i \in DOMAIN Spelling[p] : Spelling[p][i] \in Range(AsciiUpper)
HasLower(p) == \E i \in DOMAIN Spelling[p] : Spelling[p][i] \in Range(AsciiLower)
HasDigit(p) == \E i \in DOMAIN Spelling[p] : Spelling[p][i] \in Digits
\* password.lower(), character by character
lower(p) ==
    [i \in DOMAIN Spelling[p] |->
        LET c == Spelling[p][i] IN
        IF c \in Range(AsciiUpper)
        THEN AsciiLower[CHOOSE k \in DOMAIN AsciiUpper : AsciiUpper[k] = c]
        ELSE c]
common_passwords ==
    {Spelling[w] : w \in {"password", "password123", "12345678", "qwerty", "abc123",
                       "monkey", "1234567890", "letmein", "trustno1", "dragon",
                       "baseball", "iloveyou", "master", "sunshine", "ashley"}}

\* mutant: the digit is looked for before the lower-case letter
validate_password_strength_DigitFirst(password) ==
    IF PasswordLength(password) < 8
    THEN <<FALSE, "Password must be at least 8 characters long">>
    ELSE IF ~HasUpper(password)
    THEN <<FALSE, "Password must contain at least one uppercase letter">>
    ELSE IF ~HasDigit(password)
    THEN <<FALSE, "Password must contain at least one number">>
    ELSE IF ~HasLower(password)
    THEN <<FALSE, "Password must contain at least one lowercase letter">>
    ELSE IF lower(password) \in common_passwords
    THEN <<FALSE, "Password is too common. Please choose a stronger password">>
    ELSE <<TRUE, "">>

\* utils/validation.py; "" is the empty error message of a valid password
validate_password_strength(password) ==
    IF PasswordLength(password) < 8
    THEN <<FALSE, "Password must be at least 8 characters long">>
    ELSE IF ~HasUpper(password)
    THEN <<FALSE, "Password must contain at least one uppercase letter">>
    ELSE IF ~HasLower(password)
    THEN <<FALSE, "Password must contain at least one lowercase letter">>
    ELSE IF ~HasDigit(password)
    THEN <<FALSE, "Password must contain at least one number">>
    ELSE IF lower(password) \in common_passwords
    THEN <<FALSE, "Password is too common. Please choose a stronger password">>
    ELSE <<TRUE, "">>

\* UserCreate: password has min_length=8 (the other fields of the inputs above
\* are well-formed); a body that fails is answered 422 before the handler runs.
UserCreateValid(e, n, p) == PasswordLength(p) >= 8

UserOrNone(S) == IF S = {} THEN "none" ELSE CHOOSE u \in S : TRUE
get_user_by_username(username) ==
    UserOrNone({u \in DOMAIN users : users[u].username = username})
get_user_by_email(email) ==
    UserOrNone({u \in DOMAIN users : users[u].email = email})

\* Requests in flight, by handler.
Registering == {s \in DOMAIN pc : pc[s] \in {"reg_email", "reg_flush", "reg_commit"}}
Flushed == {s \in DOMAIN pc : pc[s] = "reg_commit"}

\* The id the insert gets: the first one no row, committed or flushed, has.
NextUserId ==
    LET used == DOMAIN users \cup {req[s].id : s \in Flushed}
        i == CHOOSE k \in 1..Len(UserIds) :
                 UserIds[k] \notin used /\ \A j \in 1..(k - 1) : UserIds[j] \in used
    IN UserIds[i]

\* mutant: the column is not declared unique
UniqueViolation_None(id, column, value) == FALSE

\* unique=True on users.email and users.username: the statement that would
\* leave another committed row with the same value in the column raises
\* IntegrityError.
UniqueViolation(id, column, value) ==
    \E u \in DOMAIN users \ {id} : users[u][column] = value

\* A response with its body; the session is closed.
Respond(s, code, b) == Finish(s, code) /\ body' = b
Detail(text) == [NoBody EXCEPT !.detail = text]
Returns(u) == [NoBody EXCEPT !.user = u]

\* ---------------------------------------------------------- register_user
\* The body is validated and the username is looked up.
RegCheckUsername(s, e, n, p) ==
    /\ pc[s] = "idle"
    /\ Cardinality(DOMAIN users) + Cardinality(Registering) < MaxUsers
    /\ UNCHANGED <<users, givers, tokens, now, ledger>>
    /\ IF ~UserCreateValid(e, n, p)
       THEN Respond(s, HTTP_422_UNPROCESSABLE_ENTITY, Detail("validation error"))
       ELSE IF get_user_by_username(n) # "none"
       THEN Respond(s, HTTP_400_BAD_REQUEST, Detail("Username already registered"))
       ELSE /\ pc' = [pc EXCEPT ![s] = "reg_email"]
            /\ req' = [req EXCEPT ![s] = [email |-> e, username |-> n, password |-> p,
                                          id |-> "none"]]
            /\ resp' = NoResponse
            /\ body' = NoBody

\* mutant: a taken e-mail address is reported as a taken username
RegCheckEmail_WrongDetail(s) ==
    /\ pc[s] = "reg_email"
    /\ UNCHANGED <<users, givers, tokens, now, ledger>>
    /\ IF get_user_by_email(req[s].email) # "none"
       THEN Respond(s, HTTP_400_BAD_REQUEST, Detail("Username already registered"))
       ELSE /\ pc' = [pc EXCEPT ![s] = "reg_flush"]
            /\ UNCHANGED req
            /\ resp' = NoResponse
            /\ body' = NoBody

\* The e-mail address is looked up.
RegCheckEmail(s) ==
    /\ pc[s] = "reg_email"
    /\ UNCHANGED <<users, givers, tokens, now, ledger>>
    /\ IF get_user_by_email(req[s].email) # "none"
       THEN Respond(s, HTTP_400_BAD_REQUEST, Detail("Email already registered"))
       ELSE /\ pc' = [pc EXCEPT ![s] = "reg_flush"]
            /\ UNCHANGED req
            /\ resp' = NoResponse
            /\ body' = NoBody

\* mutant: the user is committed on its own before the profile is created
RegFlush_Commits(s) ==
    /\ pc[s] = "reg_flush"
    /\ UNCHANGED <<givers, tokens, now, ledger>>
    /\ IF \/ UniqueViolation("none", "email", req[s].email)
          \/ UniqueViolation("none", "username", req[s].username)
       THEN Respond(s, ABORTED, Detail("IntegrityError")) /\ UNCHANGED users
       ELSE /\ users' = (NextUserId :> NewUser(req[s].email, req[s].username,
                                               req[s].password)) @@ users
            /\ pc' = [pc EXCEPT ![s] = "reg_commit"]
            /\ req' = [req EXCEPT ![s].id = NextUserId]
            /\ resp' = NoResponse
            /\ body' = NoBody

\* db.add(new_user); db.flush(): the INSERT runs inside the session's open
\* transaction and yields the id; the committed table does not change.
RegFlush(s) ==
    /\ pc[s] = "reg_flush"
    /\ UNCHANGED <<users, givers, tokens, now, ledger>>
    /\ IF \/ UniqueViolation("none", "email", req[s].email)
          \/ UniqueViolation("none", "username", req[s].username)
       THEN Respond(s, ABORTED, Detail("IntegrityError"))
       ELSE /\ pc' = [pc EXCEPT ![s] = "reg_commit"]
            /\ req' = [req EXCEPT ![s].id = NextUserId]
            /\ resp' = NoResponse
            /\ body' = NoBody

\* The giver profile is added and db.commit() makes both rows visible, unless
\* a row committed since the flush has the same e-mail address or username.
RegCommit(s) ==
    /\ pc[s] = "reg_commit"
    /\ UNCHANGED <<tokens, now, ledger>>
    /\ IF \/ UniqueViolation(req[s].id, "email", req[s].email)
          \/ UniqueViolation(req[s].id, "username", req[s].username)
       THEN Respond(s, ABORTED, Detail("IntegrityError")) /\ UNCHANGED <<users, givers>>
       ELSE /\ users' = (req[s].id :> NewUser(req[s].email, req[s].username,
                                              req[s].password)) @@ users
            /\ givers' = (req[s].id :> NewGiverProfile) @@ givers
            /\ Respond(s, HTTP_201_CREATED, Returns(req[s].id))

\* A request of the account routes dies before its commit.
AccountAbort(s) ==
    /\ Abort(s)
    /\ body' = Detail("Internal Server Error")
    /\ UNCHANGED <<users, tokens, now>>

\* ------------------------------------------------------------------ tokens
\* The clock counts ticks; a JWT's exp is a whole number of seconds.
TicksPerSecond == 2
MaxTime == TicksPerSecond * (TokenLifetime + 1)

SECRET_KEY == "secret"
\* a key somebody who does not hold SECRET_KEY signs with
OtherKey == "other"

\* calendar.timegm(t.utctimetuple()): the datetime in whole seconds
timegm(t) == t \div TicksPerSecond

\* HS256 over the claims with the key
HS256(sub, exp, key) == <<sub, exp, key>>

\* create_access_token(data, expires_delta) at time t; expires_delta in
\* seconds, 0 for a missing or zero timedelta (both are false in "if
\* expires_delta:").  jwt.encode writes exp in whole seconds and signs.
create_access_token(sub, expires_delta, key, t) ==
    LET expire == IF expires_delta # 0
                  THEN t + expires_delta * TicksPerSecond
                  ELSE t + TokenLifetime * TicksPerSecond
    IN [sub |-> sub, exp |-> timegm(expire), sig |-> HS256(sub, timegm(expire), key)]

\* jwt.decode(token, SECRET_KEY) at time t: the signature is verified, then
\* exp: "if exp < now: raise ExpiredSignatureError", now in whole seconds.
JWTError(token, t) ==
    \/ token.sig # HS256(token.sub, token.exp, SECRET_KEY)
    \/ token.exp < timegm(t)

\* mutant: the token's subject is looked up as an e-mail address
get_current_user_ByEmail(token, t) ==
    IF JWTError(token, t) \/ token.sub = "none"
    THEN [status |-> HTTP_401_UNAUTHORIZED, body |-> Detail("Could not validate credentials")]
    ELSE LET user == get_user_by_email(token.sub) IN
         IF user = "none"
         THEN [status |-> HTTP_401_UNAUTHORIZED,
               body |-> Detail("Could not validate credentials")]
         ELSE IF ~users[user].is_active
         THEN [status |-> HTTP_403_FORBIDDEN, body |-> Detail("User account is inactive")]
         ELSE [status |-> HTTP_200_OK, body |-> Returns(user)]

\* mutant: the account's is_active flag is not looked at
get_current_user_SkipsActive(token, t) ==
    IF JWTError(token, t) \/ token.sub = "none"
    THEN [status |-> HTTP_401_UNAUTHORIZED, body |-> Detail("Could not validate credentials")]
    ELSE LET user == get_user_by_username(token.sub) IN
         IF user = "none"
         THEN [status |-> HTTP_401_UNAUTHORIZED,
               body |-> Detail("Could not validate credentials")]
         ELSE [status |-> HTTP_200_OK, body |-> Returns(user)]

\* get_current_user (and get_current_active_user, which passes it on): the
\* dependency of every protected route.
get_current_user(token, t) ==
    IF JWTError(token, t) \/ token.sub = "none"
    THEN [status |-> HTTP_401_UNAUTHORIZED, body |-> Detail("Could not validate credentials")]
    ELSE LET user == get_user_by_username(token.sub) IN
         IF user = "none"
         THEN [status |-> HTTP_401_UNAUTHORIZED,
               body |-> Detail("Could not validate credentials")]
         ELSE IF ~users[user].is_active
         THEN [status |-> HTTP_403_FORBIDDEN, body |-> Detail("User account is inactive")]
         ELSE [status |-> HTTP_200_OK, body |-> Returns(user)]

\* What a client can present: a token login issued, or one of those with its
\* subject replaced or its expiry pushed back, the signature left as it was,
\* or one signed with another key.
Presentable ==
    tokens
    \cup {[t EXCEPT !.sub = n] : t \in tokens, n \in Usernames}
    \cup {[t EXCEPT !.exp = @ + 1] : t \in tokens}
    \cup {create_access_token(n, TokenLifetime, OtherKey, now) : n \in Usernames}

\* -------------------------------------------------------------------- login
\* Username first, then e-mail address; None for no user or a wrong password.
authenticate_user(username, password) ==
    LET by_username == get_user_by_username(username)
        user == IF by_username = "none" THEN get_user_by_email(username) ELSE by_username
    IN IF user = "none" \/ ~verify_password(password, users[user].hashed_password)
       THEN "none" ELSE user

\* mutant: an unknown identifier gets its own message
login_TellsUnknown(identifier, password) ==
    /\ Cardinality(tokens) < MaxTokens
    /\ UNCHANGED <<users, givers, now, pc, req, ledger>>
    /\ LET user == authenticate_user(identifier, password) IN
       IF user = "none"
       THEN /\ resp' = HTTP_401_UNAUTHORIZED
            /\ body' = IF get_user_by_username(identifier) = "none"
                          /\ get_user_by_email(identifier) = "none"
                       THEN Detail("User not found")
                       ELSE Detail("Incorrect username or password")
            /\ UNCHANGED tokens
       ELSE LET access_token == create_access_token(users[user].username, TokenLifetime,
                                                    SECRET_KEY, now)
            IN /\ tokens' = tokens \cup {access_token}
               /\ resp' = HTTP_200_OK
               /\ body' = [NoBody EXCEPT !.token = access_token]

\* mutant: the token's subject is the user's e-mail address
login_SubIsEmail(identifier, password) ==
    /\ Cardinality(tokens) < MaxTokens
    /\ UNCHANGED <<users, givers, now, pc, req, ledger>>
    /\ LET user == authenticate_user(identifier, password) IN
       IF user = "none"
       THEN /\ resp' = HTTP_401_UNAUTHORIZED
            /\ body' = Detail("Incorrect username or password")
            /\ UNCHANGED tokens
       ELSE LET access_token == create_access_token(users[user].email, TokenLifetime,
                                                    SECRET_KEY, now)
            IN /\ tokens' = tokens \cup {access_token}
               /\ resp' = HTTP_200_OK
               /\ body' = [NoBody EXCEPT !.token = access_token]

\* POST /auth/login
login(identifier, password) ==
    /\ Cardinality(tokens) < MaxTokens
    /\ UNCHANGED <<users, givers, now, pc, req, ledger>>
    /\ LET user == authenticate_user(identifier, password) IN
       IF user = "none"
       THEN /\ resp' = HTTP_401_UNAUTHORIZED
            /\ body' = Detail("Incorrect username or password")
            /\ UNCHANGED tokens
       ELSE LET access_token == create_access_token(users[user].username, TokenLifetime,
                                                    SECRET_KEY, now)
            IN /\ tokens' = tokens \cup {access_token}
               /\ resp' = HTTP_200_OK
               /\ body' = [NoBody EXCEPT !.token = access_token]

\* GET /auth/me
get_current_user_info(token) ==
    /\ UNCHANGED <<users, givers, tokens, now, pc, req, ledger>>
    /\ resp' = get_current_user(token, now).status
    /\ body' = get_current_user(token, now).body

\* ------------------------------------------------- update_my_user_profile
\* PUT /users/me with an e-mail address in the body: the caller is resolved
\* from the token, the address is looked up among the other users.
UpdateProfileCheck(s, token, e) ==
    /\ pc[s] = "idle"
    /\ UNCHANGED <<users, givers, tokens, now, ledger>>
    /\ LET current_user == get_current_user(token, now) IN
       IF current_user.status # HTTP_200_OK
       THEN Respond(s, current_user.status, current_user.body)
       ELSE LET u == current_user.body.user IN
            IF /\ e # users[u].email
               /\ \E o \in DOMAIN users \ {u} : users[o].email = e
            THEN Respond(s, HTTP_400_BAD_REQUEST, Detail("Email already in use"))
            ELSE /\ pc' = [pc EXCEPT ![s] = "profile_commit"]
                 /\ req' = [req EXCEPT ![s] = [email |-> e, username |-> users[u].username,
                                               password |-> "none", id |-> u,
                                               old_email |-> users[u].email]]
                 /\ resp' = NoResponse
                 /\ body' = NoBody

\* setattr and db.commit(): the UPDATE of the changed column.
UpdateProfileCommit(s) ==
    /\ pc[s] = "profile_commit"
    /\ UNCHANGED <<givers, tokens, now, ledger>>
    /\ IF req[s].email = req[s].old_email
       THEN Respond(s, HTTP_200_OK, Returns(req[s].id)) /\ UNCHANGED users
       ELSE IF UniqueViolation(req[s].id, "email", req[s].email)
       THEN Respond(s, ABORTED, Detail("IntegrityError")) /\ UNCHANGED users
       ELSE /\ users' = [users EXCEPT ![req[s].id].email = req[s].email]
            /\ Respond(s, HTTP_200_OK, Returns(req[s].id))

\* --------------------------------------------------- create_giver_profile
\* mutant: the profile is inserted without looking for an existing one
create_giver_profile_NoCheck(token) ==
    /\ UNCHANGED <<users, tokens, now, pc, req, ledger>>
    /\ LET current_user == get_current_user(token, now)
           u == current_user.body.user
       IN IF current_user.status # HTTP_200_OK
          THEN resp' = current_user.status /\ body' = current_user.body /\ UNCHANGED givers
          ELSE IF u \in DOMAIN givers
          THEN resp' = ABORTED /\ body' = Detail("IntegrityError") /\ UNCHANGED givers
          ELSE /\ givers' = (u :> NewGiverProfile) @@ givers
               /\ resp' = HTTP_201_CREATED
               /\ body' = Returns(u)

\* POST /givers/profile: the caller is resolved from the token and the
\* caller's profile is looked up; only a caller without one gets one
\* (giver_profiles.user_id is unique: the table is keyed by its user).
create_giver_profile(token) ==
    /\ UNCHANGED <<users, tokens, now, pc, req, ledger>>
    /\ LET current_user == get_current_user(token, now)
           u == current_user.body.user
       IN IF current_user.status # HTTP_200_OK
          THEN resp' = current_user.status /\ body' = current_user.body /\ UNCHANGED givers
          ELSE IF u \in DOMAIN givers
          THEN /\ resp' = HTTP_400_BAD_REQUEST
               /\ body' = Detail("User already has a giver profile")
               /\ UNCHANGED givers
          ELSE /\ givers' = (u :> NewGiverProfile) @@ givers
               /\ resp' = HTTP_201_CREATED
               /\ body' = Returns(u)

\* ------------------------------------------------------------ environment
\* An account is suspended: is_active is set to false in the table (no route
\* of the API writes the column).
suspend(u) ==
    /\ u \in DOMAIN users
    /\ users[u].is_active
    /\ users' = [users EXCEPT ![u].is_active = FALSE]
    /\ resp' = NoResponse
    /\ body' = NoBody
    /\ UNCHANGED <<givers, tokens, now, pc, req, ledger>>

Tick ==
    /\ now < MaxTime
    /\ now' = now + 1
    /\ resp' = NoResponse
    /\ body' = NoBody
    /\ UNCHANGED <<users, givers, tokens, pc, req, ledger>>

\* ------------------------------------------------------------ rate limiter
HTTP_429_TOO_MANY_REQUESTS == 429
\* @limiter.limit("10/minute") on login
LoginLimit == 10
\* get_remote_address(request): the client's address is the key
Clients == {"10.0.0.1", "10.0.0.2"}

\* MemoryStorage.get: the counter of the key's window, 0 when the key has no
\* window or its window is over (expirations[key] <= time.time()).
Counted(k) ==
    IF k \in DOMAIN storage /\ storage[k].expires > now THEN storage[k].count ELSE 0

\* mutant: the window is never over
incr_KeepsWindow(k) ==
    IF k \in DOMAIN storage
    THEN [count |-> storage[k].count + 1, expires |-> storage[k].expires]
    ELSE [count |-> 1, expires |-> now + LoginWindow * TicksPerSecond]

\* MemoryStorage.incr (fixed window, the Limiter's default strategy): the
\* counter is raised, and the request that raises it to 1 starts the window.
incr(k) ==
    [count |-> Counted(k) + 1,
     expires |-> IF Counted(k) = 0 THEN now + LoginWindow * TicksPerSecond
                 ELSE storage[k].expires]

\* POST /auth/login as served: the limiter counts the request before the
\* handler runs and answers 429 itself when the count is over the limit
\* (FixedWindowRateLimiter.hit: incr(...) <= amount).
limit(k, identifier, password) ==
    /\ Counted(k) < LoginLimit + MaxRejected
    /\ storage' = (k :> incr(k)) @@ storage
    /\ IF incr(k).count <= LoginLimit
       THEN login(identifier, password)
       ELSE /\ resp' = HTTP_429_TOO_MANY_REQUESTS
            /\ body' = Detail("Rate limit exceeded: 10 per 1 minute")
            /\ UNCHANGED <<users, givers, tokens, now, pc, req, ledger>>

\* ----------------------------------------------------------- specifications
\* No account yet, nothing of the donation side.
AccountInit ==
    /\ campaigns = << >>
    /\ givers = << >>
    /\ donations = << >>
    /\ pc = [s \in Sessions |-> "idle"]
    /\ req = [s \in Sessions |-> NoReq]
    /\ resp = NoResponse
    /\ ops = 0
    /\ users = << >>
    /\ tokens = {}
    /\ now = 0
    /\ body = NoBody
    /\ storage = << >>

\* Registrations, logins and profile updates handled concurrently, for
\* clients the limiter admits.
RegSteps ==
    \/ \E s \in Sessions, e \in Emails, n \in Usernames, p \in Passwords :
          RegCheckUsername(s, e, n, p)
    \/ \E s \in Sessions : RegCheckEmail(s)
    \/ \E s \in Sessions : RegFlush(s)
    \/ \E s \in Sessions : RegCommit(s)
    \/ \E i \in Emails \cup Usernames, p \in Passwords : login(i, p)
    \/ \E s \in Sessions, t \in tokens, e \in Emails : UpdateProfileCheck(s, t, e)
    \/ \E s \in Sessions : UpdateProfileCommit(s)
    \/ \E t \in tokens : create_giver_profile(t)
    \/ \E s \in Sessions : AccountAbort(s)
RegNext == RegSteps /\ UNCHANGED storage
RegSpec == AccountInit /\ [][RegNext]_vars

\* One request at a time, with the clock, the tokens clients present and
\* suspensions, for clients the limiter admits.
NoRequest == \A s \in Sessions : pc[s] = "idle"

AuthSteps ==
    \/ \E s \in SeqSessions, e \in Emails, n \in Usernames, p \in Passwords :
          RegCheckUsername(s, e, n, p)
    \/ \E s \in SeqSessions : RegCheckEmail(s)
    \/ \E s \in SeqSessions : RegFlush(s)
    \/ \E s \in SeqSessions : RegCommit(s)
    \/ NoRequest /\ \E i \in Emails \cup Usernames, p \in Passwords : login(i, p)
    \/ NoRequest /\ \E t \in Presentable : get_current_user_info(t)
    \/ \E s \in SeqSessions, t \in tokens, e \in Emails : UpdateProfileCheck(s, t, e)
    \/ \E s \in SeqSessions : UpdateProfileCommit(s)
    \/ \E u \in DOMAIN users : suspend(u)
    \/ Tick
    \/ \E s \in SeqSessions : AccountAbort(s)
AuthNext == AuthSteps /\ UNCHANGED storage
AuthSpec == AccountInit /\ [][AuthNext]_vars

\* Depends(get_current_active_user) of a protected route resolves the caller
\* from the bearer token before the handler runs.  It answers itself when it
\* fails ...
Refused(s, token) ==
    LET current_user == get_current_user(token, now) IN
    /\ current_user.status # HTTP_200_OK
    /\ pc[s] = "idle"
    /\ resp' = current_user.status
    /\ body' = current_user.body
    /\ UNCHANGED <<db, ops, pc, req, users, tokens, now, storage>>

\* ... and hands the user to the handler when it succeeds.
Admitted(token) ==
    /\ get_current_user(token, now).status = HTTP_200_OK
    /\ body' = NoBody
    /\ UNCHANGED <<users, tokens, now, storage>>
Caller(token) == get_current_user(token, now).body.user

GuardedWork == Len(campaigns) + Len(donations) + ops + Cardinality(Updating)

\* The protected routes with a token a client holds, one request at a time,
\* over the two registered users; accounts are suspended meanwhile.
GuardedRequest(s, t) ==
    \/ Refused(s, t)
    \/ /\ GuardedWork < MaxGuardedWork
       /\ pc[s] = "idle"
       /\ Admitted(t)
       /\ create_campaign(Caller(t))
    \/ /\ pc[s] = "idle"
       /\ Admitted(t)
       /\ \E c \in CampaignIds, st \in CampaignStatus : update_campaign(Caller(t), c, st)
    \/ /\ pc[s] = "idle"
       /\ Admitted(t)
       /\ \E c \in CampaignIds : delete_campaign(Caller(t), c)
    \/ /\ GuardedWork < MaxGuardedWork
       /\ Admitted(t)
       /\ \E c \in CampaignIds : CreateRead(s, Caller(t), c, Gives[Caller(t)])
    \/ /\ GuardedWork < MaxGuardedWork
       /\ Admitted(t)
       /\ \E d \in DonationIds, ps \in ConcurrentStatuses :
             UpdReadDonation(s, Caller(t), d, ps)
    \/ \E e \in Emails : UpdateProfileCheck(s, t, e)
    \/ pc[s] = "idle" /\ create_giver_profile(t)
    \/ pc[s] = "idle" /\ get_current_user_info(t)

GuardSteps ==
    \/ NoRequest /\ \E i \in Emails \cup Usernames, p \in Passwords : login(i, p)
    \/ \E u \in DOMAIN users : suspend(u)
    \/ \E s \in SeqSessions, t \in tokens : GuardedRequest(s, t)
    \/ \E s \in SeqSessions : CreateCommit(s) /\ UNCHANGED accounts
    \/ \E s \in SeqSessions : UpdAuthorize(s) /\ UNCHANGED accounts
    \/ \E s \in SeqSessions : UpdAggregates(s) /\ UNCHANGED accounts
    \/ \E s \in SeqSessions : UpdCommit(s) /\ UNCHANGED accounts
    \/ \E s \in SeqSessions : UpdateProfileCommit(s)
    \/ \E s \in SeqSessions : AccountAbort(s)
GuardNext == GuardSteps /\ UNCHANGED storage
GuardSpec == Init /\ [][GuardNext]_vars

\* Logins from two clients through the limiter, as time passes; the accounts
\* are the two registered users.
LimitNext ==
    \/ \E k \in Clients, i \in Usernames, p \in Passwords : limit(k, i, p)
    \/ Tick /\ UNCHANGED storage
LimitSpec == Init /\ [][LimitNext]_vars

\* validate_password_strength by itself: each caller holds a password (pc
\* "password") and calls the function on it once (pc "validated"); req keeps
\* the argument and the result.
StrengthInit ==
    /\ campaigns = <<NewCampaign("u1")>>
    /\ givers = [u \in Users |-> NewGiverProfile]
    /\ donations = << >>
    /\ pc = [s \in Sessions |-> "password"]
    /\ req \in [Sessions -> [password : DOMAIN Spelling, is_valid : {FALSE},
                             error_message : {"none"}]]
    /\ resp = NoResponse
    /\ ops = 0
    /\ users = [u \in Users |-> Registered[u]]
    /\ tokens = {}
    /\ now = 0
    /\ body = NoBody
    /\ storage = << >>

Validate(s) ==
    /\ pc[s] = "password"
    /\ pc' = [pc EXCEPT ![s] = "validated"]
    /\ req' = [req EXCEPT ![s].is_valid = validate_password_strength(req[s].password)[1],
                          ![s].error_message =
                              validate_password_strength(req[s].password)[2]]
    /\ UNCHANGED <<db, users, tokens, now, body, storage, resp, ops>>

StrengthNext == \E s \in Sessions : Validate(s)
StrengthSpec == StrengthInit /\ [][StrengthNext]_vars

\* A token by itself: create_access_token is called once, with any subject
\* (or none), any lifetime and the server's key or another one, for a client
\* that then presents the token, or one made from it, as time passes.  Every
\* subject has an account; req keeps the call's arguments (pc "token").
Subjects == Usernames \cup {"none"}
Lifetimes == 0..TokenLifetime
IssueTimes == 0..(TicksPerSecond - 1)

TokenInit ==
    /\ campaigns = << >>
    /\ donations = << >>
    /\ ops = 0
    /\ users = [u \in {"u1", "u2"} |->
                   NewUser(IF u = "u1" THEN "b@x.org" ELSE "c@x.org",
                           IF u = "u1" THEN "alice" ELSE "a@x.org", "Str0ngPass")]
    /\ givers = [u \in {"u1", "u2"} |-> NewGiverProfile]
    /\ pc = [s \in Sessions |-> "token"]
    /\ resp = NoResponse
    /\ body = NoBody
    /\ storage = << >>
    /\ \E sub \in Subjects, expires_delta \in Lifetimes, key \in {SECRET_KEY, OtherKey},
          t \in IssueTimes :
          /\ now = t
          /\ tokens = {create_access_token(sub, expires_delta, key, t)}
          /\ req = [s \in Sessions |-> [sub |-> sub, expires_delta |-> expires_delta,
                                        key |-> key, issued_at |-> t]]

TokenSteps ==
    \/ \E t \in Presentable : get_current_user_info(t)
    \/ Tick
TokenNext == TokenSteps /\ UNCHANGED storage
TokenSpec == TokenInit /\ [][TokenNext]_vars

\* ================================================================== claims
\* The step in which session s sends the response of a status update that
\* reached db.commit().
UpdResponds(s) == pc[s] = "upd_commit" /\ pc'[s] = "idle" /\ resp' # ABORTED

RECURSIVE SumAmounts(_)
SumAmounts(D) ==
    IF D = {} THEN 0
    ELSE LET d == CHOOSE x \in D : TRUE IN donations[d].amount + SumAmounts(D \ {d})

CompletedOfCampaign(c) ==
    {d \in DonationIds : donations[d].campaign_id = c /\ donations[d].payment_status = COMPLETED}
CompletedOfGiver(u) ==
    {d \in DonationIds : donations[d].giver_id = u /\ donations[d].payment_status = COMPLETED}

LegalTransitions == {<<PENDING, COMPLETED>>, <<PENDING, FAILED>>, <<COMPLETED, REFUNDED>>}

\* C1: a status update is accepted only for PENDING->COMPLETED, PENDING->FAILED
\* and COMPLETED->REFUNDED; for every other (current, requested) pair the
\* request fails and the donation's status stays as it was.
C1_OnlyLegalTransitions ==
    [][\A s \in Sessions : UpdResponds(s) =>
          IF <<req[s].old_status, req[s].payment_status>> \in LegalTransitions
          THEN resp' = HTTP_200_OK
          ELSE resp' # HTTP_200_OK /\ donations' = donations]_vars

\* C2: in every state each campaign's current_amount is the sum of the amounts
\* of its COMPLETED donations.
C2_CurrentAmountIsCompletedSum ==
    \A c \in CampaignIds : campaigns[c].current_amount = SumAmounts(CompletedOfCampaign(c))

\* C3: in every state each giver profile's total_donated is the sum of the
\* amounts, and its donation_count the number, of the giver's COMPLETED donations.
C3_GiverTotalsAreCompletedSums ==
    \A u \in Users :
        /\ givers[u].total_donated = SumAmounts(CompletedOfGiver(u))
        /\ givers[u].donation_count = Cardinality(CompletedOfGiver(u))

\* C4: a donation's amount is added to the aggregates at most once, whatever
\* status updates are requested on it, so no campaign total exceeds the sum
\* of the amounts of all its donations, no giver total the sum of the giver's
\* donations, and no donation_count the number of the giver's donations.
C4_AppliedAtMostOnce ==
    /\ \A c \in CampaignIds :
          campaigns[c].current_amount
              <= SumAmounts({d \in DonationIds : donations[d].campaign_id = c})
    /\ \A u \in Users :
          /\ givers[u].total_donated
                 <= SumAmounts({d \in DonationIds : donations[d].giver_id = u})
          /\ givers[u].donation_count
                 <= Cardinality({d \in DonationIds : donations[d].giver_id = u})

\* C5: a COMPLETED->REFUNDED update subtracts the donation's amount from the
\* campaign's current_amount and the giver's total_donated and takes 1 off the
\* giver's donation_count.
C5_RefundSubtracts ==
    [][\A s \in Sessions :
          (UpdResponds(s) /\ req[s].old_status = COMPLETED
                          /\ req[s].payment_status = REFUNDED) =>
          /\ campaigns'[req[s].campaign_id].current_amount
                 = campaigns[req[s].campaign_id].current_amount - req[s].amount
          /\ givers'[req[s].giver_id].total_donated
                 = givers[req[s].giver_id].total_donated - req[s].amount
          /\ givers'[req[s].giver_id].donation_count
                 = givers[req[s].giver_id].donation_count - 1]_vars

\* C6: of the concurrent requests that complete one PENDING donation exactly
\* one succeeds: a request that read the donation as PENDING and reaches its
\* commit after another request completed it fails and changes nothing.
C6_OneCompletionSucceeds ==
    [][\A s \in Sessions :
          (UpdResponds(s) /\ req[s].old_status = PENDING
                          /\ req[s].payment_status = COMPLETED
                          /\ donations[req[s].donation_id].payment_status = COMPLETED) =>
          (resp' # HTTP_200_OK /\ db' = db)]_vars

\* C7: no aggregate update is lost: the commit of a completion whose donation
\* is still in the status the request read grows the committed current_amount
\* and total_donated by the donation's amount and donation_count by 1,
\* whatever other donations were completed meanwhile.
C7_NoLostUpdate ==
    [][\A s \in Sessions :
          (UpdResponds(s) /\ req[s].aggregates
              /\ donations[req[s].donation_id].payment_status = req[s].old_status) =>
          /\ campaigns'[req[s].campaign_id].current_amount
                 = campaigns[req[s].campaign_id].current_amount + req[s].amount
          /\ givers'[req[s].giver_id].total_donated
                 = givers[req[s].giver_id].total_donated + req[s].amount
          /\ givers'[req[s].giver_id].donation_count
                 = givers[req[s].giver_id].donation_count + 1]_vars

\* C8: status change and aggregate changes are committed as one unit.  A step
\* that makes a donation COMPLETED, or changes a campaign total or a giver
\* total, is the commit of one completing request and writes all three: the
\* status, the campaign total and the giver totals that request computed.  A
\* request that dies before its commit changes nothing.
AggregatesOf(cs, gs) ==
    <<[c \in DOMAIN cs |-> cs[c].current_amount], gs>>

BecomesCompleted(d) ==
    donations[d].payment_status # COMPLETED /\ donations'[d].payment_status = COMPLETED

WritesCompletion(s) ==
    /\ pc[s] = "upd_commit" /\ pc'[s] = "idle" /\ req[s].aggregates
    /\ donations'[req[s].donation_id].payment_status = COMPLETED
    /\ campaigns'[req[s].campaign_id].current_amount = req[s].current_amount + req[s].amount
    /\ givers'[req[s].giver_id].total_donated = req[s].total_donated + req[s].amount
    /\ givers'[req[s].giver_id].donation_count = req[s].donation_count + 1

C8_CompletionIsAtomic ==
    [][/\ ((\E d \in DonationIds : BecomesCompleted(d))
              \/ AggregatesOf(campaigns', givers') # AggregatesOf(campaigns, givers))
          => \E s \in Sessions : WritesCompletion(s)
       /\ resp' = ABORTED => db' = db]_vars

\* a donation was completed with both aggregates raised, and a request has
\* just died in the middle of a completion
C8_Witness ==
    /\ resp = ABORTED
    /\ \E d \in DonationIds :
          /\ donations[d].payment_status = COMPLETED
          /\ campaigns[donations[d].campaign_id].current_amount >= donations[d].amount
          /\ givers[donations[d].giver_id].donation_count >= 1
    /\ \E d \in DonationIds : donations[d].payment_status = PENDING

\* C9: create_donation against a campaign whose status is DRAFT, COMPLETED or
\* CANCELLED when the request reads it fails with 400 and creates nothing; a
\* donation is only ever inserted by a request that read its campaign as ACTIVE.
C9_OnlyActiveCampaigns ==
    [][/\ \A s \in Sessions, u \in Users, c \in CampaignIds :
             (CreateRead(s, u, c, Gives[u]) /\ campaigns[c].status # ACTIVE) =>
             (resp' = HTTP_400_BAD_REQUEST /\ pc'[s] = "idle" /\ db' = db)
       /\ Len(donations') > Len(donations) =>
             \E s \in Sessions :
                 /\ pc[s] = "create_commit" /\ pc'[s] = "idle"
                 /\ req[s].campaign_status = ACTIVE
                 /\ donations'[Len(donations')].campaign_id = req[s].campaign_id]_vars

\* a donation exists, and a later create_donation was just refused because
\* the campaign is no longer ACTIVE
C9_Witness ==
    /\ resp = HTTP_400_BAD_REQUEST
    /\ Len(donations) >= 1
    /\ \E c \in CampaignIds : campaigns[c].status \in {DRAFT, COMPLETED, CANCELLED}

\* C10: a successful create_donation adds one donation, in status PENDING,
\* and leaves every campaign's current_amount, every giver's total_donated and
\* donation_count, and every other donation as they were.
C10_CreateIsPendingAndFrames ==
    [][resp' = HTTP_201_CREATED =>
          /\ Len(donations') = Len(donations) + 1
          /\ donations'[Len(donations')].payment_status = PENDING
          /\ SubSeq(donations', 1, Len(donations)) = donations
          /\ AggregatesOf(campaigns', givers') = AggregatesOf(campaigns, givers)]_vars

\* a donation was just created while another donation is already COMPLETED
\* and counted in the aggregates
C10_Witness ==
    /\ resp = HTTP_201_CREATED
    /\ donations[Len(donations)].payment_status = PENDING
    /\ \E c \in CampaignIds : campaigns[c].current_amount > 0

\* C11: a status update whose caller is not the donation's giver (a caller
\* without a giver profile is never a donation's giver) ends at the
\* authorization check with 403 and changes no table; a donation's status is
\* only ever changed by the commit of a request made by its giver.
C11_OnlyDonorUpdates ==
    [][/\ \A s \in Sessions :
             (pc[s] = "upd_auth" /\ pc'[s] # "upd_auth"
                                /\ req[s].user # req[s].giver_id) =>
             /\ pc'[s] = "idle"
             /\ resp' \in {HTTP_403_FORBIDDEN, ABORTED}
             /\ db' = db
       /\ \A d \in DonationIds :
             donations'[d].payment_status # donations[d].payment_status =>
             \E s \in Sessions :
                 /\ pc[s] = "upd_commit" /\ pc'[s] = "idle"
                 /\ req[s].donation_id = d
                 /\ req[s].user = donations[d].giver_id]_vars

\* a status update by somebody else was just refused, and the donation it
\* named is still PENDING
C11_Witness ==
    /\ resp = HTTP_403_FORBIDDEN
    /\ \E d \in DonationIds : donations[d].payment_status = PENDING

\* C12: registration persists the identity and its giver profile together.  In
\* every committed state each user has a giver profile, a commit that adds a
\* user adds that user's profile, and a registration that dies after its
\* db.flush(), before its commit, leaves no user behind.
C12_RegistrationIsAtomic ==
    [][/\ DOMAIN users' \subseteq DOMAIN givers'
       /\ DOMAIN users' \ DOMAIN users = DOMAIN givers' \ DOMAIN givers
       /\ \A s \in Sessions :
             (pc[s] = "reg_commit" /\ pc'[s] = "idle" /\ resp' = ABORTED) =>
             (users' = users /\ givers' = givers /\ req[s].id \notin DOMAIN users')]_vars

\* a registration has just died while another one has inserted its user and
\* not yet its giver profile, and an earlier one is committed
C12_Witness ==
    /\ resp = ABORTED
    /\ body = Detail("Internal Server Error")
    /\ \E s \in Sessions : pc[s] = "reg_commit" /\ req[s].id \notin DOMAIN users
    /\ DOMAIN users # {}

\* C13: no two users have the same e-mail address and no two users have the
\* same username, whatever registrations and e-mail updates ran or overlapped.
C13_EmailAndUsernameUnique ==
    \A u, v \in DOMAIN users :
        u # v => (users[u].email # users[v].email /\ users[u].username # users[v].username)

\* two users are registered, and a statement has just been refused by a
\* unique index because its check had passed before the other row was committed
C13_Witness ==
    /\ resp = ABORTED
    /\ body = Detail("IntegrityError")
    /\ Cardinality(DOMAIN users) >= 2

\* C14: a login whose identifier resolves to a user, with that user's
\* password, is refused when the user's is_active flag is false: the answer is
\* neither 200 nor the 401 of wrong credentials, and no token is issued.
C14_InactiveLoginRefused ==
    [][\A i \in Emails \cup Usernames, p \in Passwords :
          (/\ authenticate_user(i, p) # "none"
           /\ ~users[authenticate_user(i, p)].is_active
           /\ login(i, p)) =>
          /\ resp' \notin {HTTP_200_OK, HTTP_401_UNAUTHORIZED}
          /\ tokens' = tokens
          /\ body'.token = NoToken]_vars

\* Which users an identifier names, by username or by e-mail address.
Named(i) == {u \in DOMAIN users : users[u].username = i \/ users[u].email = i}

\* C15: a login with an identifier that names no user and a login with an
\* identifier that names a user but with a password that is not that user's
\* get the same answer: 401 with the same detail, and no token.
C15_UniformLoginFailure ==
    [][\A i \in Emails \cup Usernames, p \in Passwords :
          (/\ \/ Named(i) = {}
              \/ \A u \in Named(i) : ~verify_password(p, users[u].hashed_password)
           /\ login(i, p)) =>
          /\ resp' = HTTP_401_UNAUTHORIZED
          /\ body' = Detail("Incorrect username or password")
          /\ tokens' = tokens]_vars

\* a login has just failed while one user is registered whose e-mail address
\* and username both name it, and the other identifiers name nobody
C15_Witness ==
    /\ resp = HTTP_401_UNAUTHORIZED
    /\ body = Detail("Incorrect username or password")
    /\ Cardinality(DOMAIN users) = 1
    /\ \E i \in Emails \cup Usernames : Named(i) = {}
    /\ \E i \in Emails \cup Usernames : Named(i) # {}

\* C16: no user is created with a password validate_password_strength
\* rejects: a registration with such a password is refused whatever the
\* e-mail address and username are.
C16_WeakPasswordCreatesNothing ==
    \A u \in DOMAIN users : \A p \in Passwords :
        verify_password(p, users[u].hashed_password) => validate_password_strength(p)[1]

\* C17: a registration whose username is taken and whose e-mail address is
\* free is answered 400 "Username already registered"; one whose e-mail
\* address is taken and whose username is free is answered 400 "Email already
\* registered"; neither changes table users or table giver_profiles.
C17_SpecificConflict ==
    [][/\ \A s \in Sessions, e \in Emails, n \in Usernames, p \in Passwords :
             (/\ UserCreateValid(e, n, p)
              /\ \E u \in DOMAIN users : users[u].username = n
              /\ \A u \in DOMAIN users : users[u].email # e
              /\ RegCheckUsername(s, e, n, p)) =>
             /\ resp' = HTTP_400_BAD_REQUEST
             /\ body' = Detail("Username already registered")
             /\ pc'[s] = "idle"
             /\ users' = users /\ givers' = givers
       /\ \A s \in Sessions :
             (/\ pc[s] = "reg_email"
              /\ \E u \in DOMAIN users : users[u].email = req[s].email
              /\ \A u \in DOMAIN users : users[u].username # req[s].username
              /\ RegCheckEmail(s)) =>
             /\ resp' = HTTP_400_BAD_REQUEST
             /\ body' = Detail("Email already registered")
             /\ pc'[s] = "idle"
             /\ users' = users /\ givers' = givers]_vars

\* a registration with a taken e-mail address and a free username has just
\* been refused
C17_Witness ==
    /\ resp = HTTP_400_BAD_REQUEST
    /\ body = Detail("Email already registered")
    /\ DOMAIN users # {}
    /\ \E n \in Usernames : \A u \in DOMAIN users : users[u].username # n

\* C18: a token issued for (subject, lifetime) with the server's key validates
\* to the subject's user at every time before issue time + lifetime and is
\* refused (401) at every time from issue time + lifetime on; a token whose
\* signature was not made with the server's key over its claims, or that has
\* no subject, is always refused.  (A call without expires_delta asks for the
\* configured lifetime.)
IssuedToken(t) ==
    /\ t \in tokens
    /\ \E s \in Sessions : req[s].key = SECRET_KEY /\ req[s].sub # "none"

ExpiresAt(call) ==
    call.issued_at + TicksPerSecond *
        (IF call.expires_delta = 0 THEN TokenLifetime ELSE call.expires_delta)

C18_TokenRoundTrip ==
    [][\A t \in Presentable : get_current_user_info(t) =>
          IF /\ IssuedToken(t)
             /\ \E s \in Sessions : now < ExpiresAt(req[s])
          THEN /\ resp' = HTTP_200_OK
               /\ body'.user \in DOMAIN users
               /\ users[body'.user].username = t.sub
          ELSE resp' = HTTP_401_UNAUTHORIZED]_vars

\* C19: a login with the e-mail address or with the username of a registered
\* (and active) user and with that user's password is answered 200 with a
\* bearer token, and GET /auth/me with that token returns that user.
C19_RegisteredCanLogIn ==
    [][\A i \in Emails \cup Usernames, p \in Passwords : \A u \in DOMAIN users :
          (/\ users[u].is_active
           /\ users[u].email = i \/ users[u].username = i
           /\ verify_password(p, users[u].hashed_password)
           /\ login(i, p)) =>
          /\ resp' = HTTP_200_OK
          /\ body'.token \in tokens'
          /\ get_current_user(body'.token, now').status = HTTP_200_OK
          /\ get_current_user(body'.token, now').body.user = u]_vars

\* The time, in ticks, a token's exp stands for.
Unexpired(t) == now < t.exp * TicksPerSecond

\* The protected routes: what they answer a caller whose token is honoured.
HonouredBy(t) ==
    /\ get_current_user_info(t) =>
          /\ resp' = HTTP_200_OK
          /\ body'.user \in DOMAIN users
          /\ users[body'.user].username = t.sub
    /\ \A s \in Sessions, e \in Emails :
          UpdateProfileCheck(s, t, e) =>
              resp' \notin {HTTP_401_UNAUTHORIZED, HTTP_403_FORBIDDEN}

\* What the dependency of the protected routes makes of a token now.
Honoured(t) == get_current_user(t, now).status = HTTP_200_OK
Holder(t) == get_current_user(t, now).body.user

\* C20 as stated: no step of the system ends a token early.  A token that is
\* honoured stays honoured after every step that leaves it unexpired,
\* whatever the step is: a login, a registration, a profile update, a change
\* of an account's state, the passing of time.
C20_NoRevocation ==
    [][\A t \in tokens :
          (Honoured(t) /\ Unexpired(t)') => Honoured(t)']_vars

\* C20, amended: a token that is honoured stays honoured, for the same user,
\* after every step that leaves it unexpired and its user active; and at every
\* time before its expiry the protected routes honour a token of a user that
\* is active, whatever logins, registrations and profile updates happened
\* since login issued it.
C20_HonouredWhileActive ==
    [][\A t \in tokens :
          /\ (Honoured(t) /\ Unexpired(t)' /\ users'[Holder(t)].is_active) =>
                 (Honoured(t)' /\ Holder(t)' = Holder(t))
          /\ (Unexpired(t) /\ \E u \in DOMAIN users :
                                   users[u].username = t.sub /\ users[u].is_active)
                 => HonouredBy(t)]_vars

\* a token has just been honoured after time passed, a second user registered
\* and was suspended, and a second token was issued
C20_Witness ==
    /\ resp = HTTP_200_OK
    /\ body.user \in DOMAIN users
    /\ users[body.user].is_active
    /\ \E u \in DOMAIN users : ~users[u].is_active
    /\ Cardinality(tokens) = 2
    /\ now > 0

\* C21: login is limited to 10 requests per window and client key.  A login
\* request that finds fewer than 10 requests of its key counted in the running
\* window is admitted and answered by the handler (200 or 401), whatever the
\* earlier ones were answered; one that finds 10 or more is answered 429 and
\* issues no token; every request is counted; and a request whose key has no
\* running window (none yet, or the last one is over) is admitted and starts one.
InWindow(k) == k \in DOMAIN storage /\ now < storage[k].expires

C21_LoginRateLimit ==
    [][\A k \in Clients, i \in Usernames, p \in Passwords :
          limit(k, i, p) =>
          LET n == IF InWindow(k) THEN storage[k].count ELSE 0 IN
          /\ storage'[k].count = n + 1
          /\ \A o \in DOMAIN storage \ {k} : storage'[o] = storage[o]
          /\ IF n < LoginLimit
             THEN /\ resp' = (IF authenticate_user(i, p) = "none"
                              THEN HTTP_401_UNAUTHORIZED ELSE HTTP_200_OK)
                  /\ resp' = HTTP_200_OK => body'.token \in tokens'
             ELSE /\ resp' = HTTP_429_TOO_MANY_REQUESTS
                  /\ tokens' = tokens
          /\ ~InWindow(k) =>
                /\ resp' # HTTP_429_TOO_MANY_REQUESTS
                /\ storage'[k].expires = now + LoginWindow * TicksPerSecond]_vars

\* a client has just been answered 429 in a window in which a login
\* succeeded, while the other client is in a window of its own that started
\* later and is still below the limit
C21_Witness ==
    /\ resp = HTTP_429_TOO_MANY_REQUESTS
    /\ tokens # {}
    /\ \E k \in Clients :
          /\ InWindow(k) /\ storage[k].count = LoginLimit + 1
          /\ \E o \in Clients \ {k} :
                /\ InWindow(o) /\ storage[o].count < LoginLimit
                /\ storage[o].expires > storage[k].expires
                /\ storage[o].expires > (LoginWindow + 1) * TicksPerSecond

\* C22: no step lowers a giver profile's total_donated or donation_count.
C22_GiverTotalsNeverDecrease ==
    [][\A u \in DOMAIN givers :
          /\ givers'[u].total_donated >= givers[u].total_donated
          /\ givers'[u].donation_count >= givers[u].donation_count]_vars

\* C23: giver profiles are 1:1 with users.  In every state, whatever
\* registrations and create_giver_profile calls ran or overlapped, the users
\* that have a giver profile are exactly the users of table users (the table
\* holds one row per user_id); and create_giver_profile by a caller that has a
\* profile is answered 400 and changes no table.
C23_OneProfilePerUser ==
    /\ [](DOMAIN givers = DOMAIN users)
    /\ [][\A t \in tokens :
             (/\ get_current_user(t, now).status = HTTP_200_OK
              /\ get_current_user(t, now).body.user \in DOMAIN givers
              /\ create_giver_profile(t)) =>
             /\ resp' = HTTP_400_BAD_REQUEST
             /\ body' = Detail("User already has a giver profile")
             /\ givers' = givers /\ users' = users]_vars

\* create_giver_profile has just been refused while two users are registered
\* and the registration of a third has inserted its user row
C23_Witness ==
    /\ resp = HTTP_400_BAD_REQUEST
    /\ body = Detail("User already has a giver profile")
    /\ Cardinality(DOMAIN users) >= 2
    /\ \E s \in Sessions : pc[s] = "reg_commit"

\* C24: validate_password_strength looks at the rules in the order length
\* below 8, no upper-case letter, no lower-case letter, no digit, lower-cased
\* password on the deny-list.  It returns (False, the message of the first
\* rule in that order the password violates), and (True, "") exactly when the
\* password violates none; the call changes nothing but its result.
Violated(rule, p) ==
    CASE rule = 1 -> PasswordLength(p) < 8
      [] rule = 2 -> ~HasUpper(p)
      [] rule = 3 -> ~HasLower(p)
      [] rule = 4 -> ~HasDigit(p)
      [] rule = 5 -> lower(p) \in common_passwords

RuleMessage ==
    <<"Password must be at least 8 characters long",
      "Password must contain at least one uppercase letter",
      "Password must contain at least one lowercase letter",
      "Password must contain at least one number",
      "Password is too common. Please choose a stronger password">>

ViolatedRules(p) == {rule \in DOMAIN RuleMessage : Violated(rule, p)}

C24_FirstViolatedRule ==
    [][\A s \in Sessions :
          (pc[s] = "password" /\ pc'[s] = "validated") =>
          LET p == req[s].password
              V == ViolatedRules(p)
          IN /\ req'[s].is_valid = (V = {})
             /\ req'[s].error_message =
                    (IF V = {} THEN ""
                     ELSE RuleMessage[CHOOSE r \in V : \A q \in V : r <= q])
             /\ req'[s].password = p
             /\ \A o \in Sessions \ {s} : req'[o] = req[o] /\ pc'[o] = pc[o]
             /\ UNCHANGED <<db, users, tokens, now, body, storage, resp, ops>>]_vars

\* one caller's password was refused for being on the deny-list, the other's,
\* which violates three rules, for the first of them
C24_Witness ==
    \E s \in Sessions, o \in Sessions :
        /\ pc[s] = "validated" /\ pc[o] = "validated"
        /\ ~req[s].is_valid /\ req[s].error_message = RuleMessage[5]
        /\ ~req[o].is_valid /\ Cardinality(ViolatedRules(req[o].password)) >= 3
        /\ req[o].error_message = RuleMessage[2]

\* C25: a status update from PENDING to FAILED changes the donation's status
\* and nothing else: every campaign's current_amount, every giver's
\* total_donated and donation_count and every other donation are after the
\* update what they were before it.
C25_FailureHasNoAggregateEffect ==
    [][\A s \in Sessions :
          (UpdResponds(s) /\ req[s].old_status = PENDING
                          /\ req[s].payment_status = FAILED) =>
          /\ resp' = HTTP_200_OK
          /\ donations' = [donations EXCEPT ![req[s].donation_id].payment_status = FAILED]
          /\ campaigns' = campaigns
          /\ givers' = givers]_vars

\* a PENDING donation has just been set to FAILED while another donation is
\* COMPLETED and counted in the aggregates
C25_Witness ==
    /\ resp = HTTP_200_OK
    /\ ops >= 2
    /\ \E d \in DonationIds : donations[d].payment_status = FAILED
    /\ \E d \in DonationIds :
          /\ donations[d].payment_status = COMPLETED
          /\ campaigns[donations[d].campaign_id].current_amount > 0
          /\ givers[donations[d].giver_id].donation_count > 0

\* C26: a status update for a donation that does not exist is answered 404
\* and changes no table.  The campaign and the giver profile of every
\* donation that exists can be resolved, in every state, so no update is ever
\* applied in part: the commit of a completion writes the status, the
\* campaign's total and the giver's totals together, the commit of any other
\* update writes the status alone.
Resolvable(ds, cs, gs) ==
    \A d \in DOMAIN ds : ds[d].campaign_id \in DOMAIN cs /\ ds[d].giver_id \in DOMAIN gs

InactiveCaller(t) ==
    /\ ~JWTError(t, now)
    /\ \E u \in DOMAIN users : users[u].username = t.sub /\ ~users[u].is_active

\* C27: a request to a protected route whose token names an inactive account
\* is answered 403 and leaves every table and every session as it was; a
\* request is only taken up, a campaign only created, re-statused or
\* cancelled, and a giver profile only created, for an account that is active
\* at that moment.
C27_InactiveIsForbidden ==
    [][/\ \A s \in SeqSessions, t \in tokens :
             (InactiveCaller(t) /\ GuardedRequest(s, t)) =>
                 /\ resp' = HTTP_403_FORBIDDEN
                 /\ body' = Detail("User account is inactive")
                 /\ UNCHANGED <<db, users, pc, req>>
       /\ \A s \in SeqSessions :
             (pc[s] = "idle" /\ pc'[s] # "idle") =>
                 LET r == req'[s] IN
                 users[IF "user" \in DOMAIN r THEN r.user ELSE r.id].is_active
       /\ \A c \in DOMAIN campaigns' :
             (c \notin DOMAIN campaigns \/ campaigns'[c].status # campaigns[c].status) =>
                 users[campaigns'[c].creator_id].is_active
       /\ \A u \in DOMAIN givers' \ DOMAIN givers : users[u].is_active
      ]_vars

\* a deactivated account presented its token and got 403, after the other
\* account had created a campaign with its own
C27_Witness ==
    /\ resp = HTTP_403_FORBIDDEN
    /\ body = Detail("User account is inactive")
    /\ \E t \in tokens : InactiveCaller(t)
    /\ \E c \in DOMAIN campaigns :
          /\ c > 1
          /\ users[campaigns[c].creator_id].is_active
          /\ \E t \in tokens : t.sub = users[campaigns[c].creator_id].username

\* ------------------------------------------------------------------- C28
\* C28: no user's username equals another user's e-mail address, so the
\* username-first lookup of authenticate_user never resolves one user's
\* e-mail address to another user.
C28_NoUsernameIsAnothersEmail ==
    \A u \in DOMAIN users : \A v \in DOMAIN users \ {u} :
        /\ users[v].username # users[u].email
        /\ get_user_by_username(users[u].email) \in {"none", u}

\* ------------------------------------------------------------------- C29
\* the users a token's subject names
SubjectIn(table, t) == {u \in DOMAIN table : table[u].username = t.sub}
Subject(t) == SubjectIn(users, t)

\* C29: the token a login issues names the user that login authenticated and
\* nobody else; whatever registrations, profile updates, suspensions and
\* logins follow, it goes on naming that one user, and whenever the protected
\* routes honour it they resolve it to that user.
C29_TokenResolvesToItsUser ==
    /\ [](\A t \in tokens : Honoured(t) => Subject(t) = {Holder(t)})
    /\ [][/\ \A t \in tokens : Cardinality(Subject(t)) = 1 /\ Subject(t)' = Subject(t)
          /\ \A i \in Emails \cup Usernames, p \in Passwords :
                (resp' = HTTP_200_OK /\ login(i, p)) =>
                    SubjectIn(users', body'.token) = {authenticate_user(i, p)}
         ]_vars

\* a token is honoured for the user whose username is its subject while
\* another user's e-mail address equals that subject
C29_Witness ==
    \E t \in tokens, v \in DOMAIN users :
        /\ Honoured(t)
        /\ Subject(t) = {Holder(t)}
        /\ users[v].email = t.sub
        /\ v # Holder(t)

\* ------------------------------------------------------------------- C30
\* C30: after a campaign was deleted (delete_campaign set its status to
\* CANCELLED), no donation is ever created against it, whatever requests
\* follow the deletion.
C30_NoDonationAfterDelete ==
    \A i \in DOMAIN donations : donations[i].campaign_id # 1

====
